---- MODULE Spec2Model ----
(***************************************************************************)
(* A model of the treemap tree of src/tree_data.py (class AbstractTree and *)
(* its FileSystemTree / PopulationTree subclasses): the node fields, the   *)
(* constructor, the size aggregation, the three mutations                  *)
(* (increase_data_size, decrease_data_size, delete_leaf), the layout       *)
(* (generate_treemap) and the hit test (locate_leaf), and of event_loop    *)
(* of src/treemap_visualiser.py, which drives them.                        *)
(*                                                                         *)
(* Objects are node identifiers; a tree value is a record of the fields    *)
(* of every allocated object:                                              *)
(*    _root, _subtrees, _parent_tree, data_size, colour.                   *)
(* Strings are modelled by what the code does with them: a display path    *)
(* is the sequence of its components (the text between two separators),    *)
(* the empty string is the empty sequence, and str(int) is the sequence    *)
(* of the decimal digits.                                                  *)
(*                                                                         *)
(* Arithmetic: the code computes math.ceil(s * 0.01) and                   *)
(* math.floor(w * (a / b)) in double precision.  For every s below         *)
(* 2 000 000 and every w below 22 these equal the exact integer            *)
(* ceil(s / 100) and floor(w * a / b), which is what the model computes;   *)
(* the sizes and extents of the model stay far below those limits.         *)
(***************************************************************************)
EXTENDS Integers, Sequences, FiniteSets

VARIABLES tree, steps, call

vars == <<tree, steps, call>>

(***************************************************************************)
(* Bounds of the model.                                                    *)
(***************************************************************************)
\* The number of mutating calls made on the root in one behaviour.
MaxCalls == 2
\* Rectangles are 1..MaxCoord wide and high; click positions are the
\* integer points of 0..MaxCoord x 0..MaxCoord.
MaxCoord == 2

\* The argument sizes of the leaves handed to the constructor.
LeafSizes == {0, 1, 100}
\* The labels of leaves, of inner nodes and of the root.
LeafLabels == {"a", "b"}
InnerLabels == {"a", "d"}
RootLabels == {"a", "r"}

\* Python's None (the label of an empty tree, the value a method returns
\* when it falls off its end), True and False, and "no parent".
None == "<None>"
True == "True"
False == "False"
NoParent == 0
\* The object the caller holds: the root of the whole tree.
Root == 1

(***************************************************************************)
(* Helpers on sequences and strings.                                       *)
(***************************************************************************)
RECURSIVE SumSeq(_)
SumSeq(s) == IF s = <<>> THEN 0 ELSE s[1] + SumSeq(Tail(s))

\* str(x) for a label: str(None) is the text "None".
StrOfLabel(l) == IF l = None THEN "None" ELSE l

\* str(n) for a non-negative int: its decimal digits.
RECURSIVE StrOfInt(_)
StrOfInt(n) == IF n < 10 THEN <<n>> ELSE Append(StrOfInt(n \div 10), n % 10)

\* os.path.basename on the platform the display paths are written for
\* (get_separator joins with a backslash): the text after the last separator.
Basename(path) == IF path = <<>> THEN <<>> ELSE <<path[Len(path)]>>

\* self._root == s for a string s: None equals no string, and a label
\* (which holds no separator) equals only the one-component string.
RootEquals(t, n, s) == t._root[n] # None /\ s = <<t._root[n]>>

\* math.ceil(data_size * 0.01)
CeilPercent(s) == (s + 99) \div 100

(***************************************************************************)
(* The constructor.                                                        *)
(***************************************************************************)
\* The shapes of the trees built: Shape[n] is the subtree list of node n.
Shapes ==
    { << <<>> >>,
      << <<2, 3, 4>>, <<>>, <<>>, <<>> >>,
      << <<2, 3>>, <<4>>, <<>>, <<>> >>,
      << <<2, 3>>, <<>>, <<4>>, <<>> >> }

NodesOf(shape) == 1..Len(shape)

ParentIn(shape, n) ==
    IF \E m \in NodesOf(shape) : \E i \in 1..Len(shape[m]) : shape[m][i] = n
    THEN CHOOSE m \in NodesOf(shape) : \E i \in 1..Len(shape[m]) : shape[m][i] = n
    ELSE NoParent

\* self.data_size = data_size; then += subtree.data_size for each subtree.
RECURSIVE InitDataSize(_, _, _)
InitDataSize(shape, arg, n) ==
    arg[n] + SumSeq([i \in 1..Len(shape[n]) |-> InitDataSize(shape, arg, shape[n][i])])

\* The tree after AbstractTree.__init__ has run bottom-up on every node:
\* labels[n] is the root argument and arg[n] the data_size argument of n.
\* randint gives every node some colour in (0..255)^3; the model takes the
\* colours pairwise different so that a pair of the layout names its leaf.
NewTree(shape, labels, arg) ==
    [ _root        |-> labels,
      _subtrees    |-> [n \in NodesOf(shape) |-> shape[n]],
      _parent_tree |-> [n \in NodesOf(shape) |-> ParentIn(shape, n)],
      data_size    |-> [n \in NodesOf(shape) |-> InitDataSize(shape, arg, n)],
      colour       |-> [n \in NodesOf(shape) |-> <<n, 2 * n, 255 - n>>] ]

LabelChoices(shape, n) ==
    IF n = Root THEN RootLabels
    ELSE IF shape[n] = <<>> THEN LeafLabels ELSE InnerLabels

\* "If <subtrees> is not empty, <data_size> should not be specified".
ArgChoices(shape, n) == IF shape[n] = <<>> THEN LeafSizes ELSE {0}

Nodes(t) == DOMAIN t._root

(***************************************************************************)
(* Aggregation.                                                            *)
(***************************************************************************)
RECURSIVE update_data_size(_, _)
update_data_size(t, n) ==
    IF Len(t._subtrees[n]) = 0
    THEN t.data_size[n]
    ELSE SumSeq([i \in 1..Len(t._subtrees[n]) |->
                    update_data_size(t, t._subtrees[n][i])])

\* Mutants of Refresh: the assignment left out, and "+=" written for "=".
RefreshSkipped(t, n) == t
RefreshAdds(t, n) == [t EXCEPT !.data_size[n] = @ + update_data_size(t, n)]

\* subtree.data_size = subtree.update_data_size()
Refresh(t, n) == [t EXCEPT !.data_size[n] = update_data_size(t, n)]

(***************************************************************************)
(* increase_data_size / decrease_data_size.                                *)
(***************************************************************************)
RECURSIVE increase_data_size(_, _, _)
RECURSIVE IncreaseLoop(_, _, _, _)
\* for subtree in self._subtrees: recurse with leaf_name, then refresh.
IncreaseLoop(t, n, i, leaf_name) ==
    IF i > Len(t._subtrees[n]) THEN t
    ELSE LET c == t._subtrees[n][i]
         IN  IncreaseLoop(Refresh(increase_data_size(t, c, leaf_name), c),
                          n, i + 1, leaf_name)

\* Note the comparison with <leaf>, not with leaf_name.
increase_data_size(t, n, leaf) ==
    IF RootEquals(t, n, leaf)
    THEN [t EXCEPT !.data_size[n] = @ + CeilPercent(@)]
    ELSE IncreaseLoop(t, n, 1, Basename(leaf))

\* self.data_size -= ceil(...); if self.data_size < 1: self.data_size = 1
DecreasedSize(s) ==
    IF s - CeilPercent(s) < 1 THEN 1 ELSE s - CeilPercent(s)

RECURSIVE decrease_data_size(_, _, _)
RECURSIVE DecreaseLoop(_, _, _, _)
DecreaseLoop(t, n, i, leaf_name) ==
    IF i > Len(t._subtrees[n]) THEN t
    ELSE LET c == t._subtrees[n][i]
         IN  DecreaseLoop(Refresh(decrease_data_size(t, c, leaf_name), c),
                          n, i + 1, leaf_name)

decrease_data_size(t, n, leaf) ==
    IF RootEquals(t, n, Basename(leaf))
    THEN [t EXCEPT !.data_size[n] = DecreasedSize(@)]
    ELSE DecreaseLoop(t, n, 1, Basename(leaf))

(***************************************************************************)
(* delete_leaf.  The result is the tree and the returned value: True,      *)
(* False, or None when the method falls off its end.                       *)
(***************************************************************************)
\* self._root = None; self._subtrees = []
Tombstone(t, n) == [t EXCEPT !._root[n] = None, !._subtrees[n] = <<>>]

RECURSIVE delete_leaf(_, _, _)
RECURSIVE DeleteLoop(_, _, _, _, _)
\* The loop runs over the list self._subtrees as it is when the loop starts.
DeleteLoop(t, n, i, leaf_name, found) ==
    IF i > Len(t._subtrees[n]) THEN t
    ELSE LET c  == t._subtrees[n][i]
             r  == delete_leaf(t, c, leaf_name)
             hit == (~found) /\ r.ret = True
             t1 == IF found THEN t
                   ELSE IF hit THEN [r.tree EXCEPT !.data_size[c] = 0]
                   ELSE r.tree
         IN  DeleteLoop(Refresh(t1, c), n, i + 1, leaf_name, found \/ hit)

delete_leaf(t, n, leaf) ==
    IF RootEquals(t, n, Basename(leaf))
    THEN [tree |-> Tombstone(t, n), ret |-> True]
    ELSE IF Len(t._subtrees[n]) = 0
    THEN [tree |-> t, ret |-> False]
    ELSE [tree |-> DeleteLoop(t, n, 1, Basename(leaf), FALSE), ret |-> None]

(***************************************************************************)
(* Display paths.                                                          *)
(***************************************************************************)
\* FileSystemTree.get_separator / PopulationTree.get_separator
RECURSIVE get_separator(_, _)
get_separator(t, n) ==
    IF t._parent_tree[n] = NoParent
    THEN <<StrOfLabel(t._root[n])>>
    ELSE Append(get_separator(t, t._parent_tree[n]), StrOfLabel(t._root[n]))

\* The nodes of the tree the caller holds: the root and what its subtree
\* lists reach.
RECURSIVE Reach(_, _)
Reach(t, n) ==
    {n} \cup UNION { Reach(t, t._subtrees[n][i]) : i \in 1..Len(t._subtrees[n]) }

\* The leaves a caller can name: reachable, labelled, without subtrees.
NamedLeaves(t) ==
    { n \in Reach(t, Root) : t._root[n] # None /\ t._subtrees[n] = <<>> }

\* The strings handed to the mutations: the display path of a leaf (what
\* the event loop passes) or a bare label.
LeafArgs(t) ==
    { get_separator(t, n) : n \in NamedLeaves(t) } \cup { <<l>> : l \in LeafLabels }

\* How many nodes of the tree carry the base name of <leaf> as their label.
Matches(t, leaf) ==
    Cardinality({ n \in Reach(t, Root) : RootEquals(t, n, Basename(leaf)) })

(***************************************************************************)
(* generate_treemap.  A rectangle is <<x, y, width, height>>; the result   *)
(* is the list of <<rectangle, colour>> pairs.                             *)
(***************************************************************************)
\* math.floor(extent * (subtree.data_size / self.data_size))
FloorShare(extent, part, whole) == (extent * part) \div whole

\* v_rect = (x_position, rect[1], width, rect[3]) when the width is divided,
\* h_rect = (rect[0], y_position, rect[2], height) when the height is.
SubRect(rect, vertical, position, extent) ==
    IF vertical THEN <<position, rect[2], extent, rect[4]>>
    ELSE <<rect[1], position, rect[3], extent>>

\* rect[2] when the width is divided, rect[3] when the height is.
Extent(rect, vertical) == IF vertical THEN rect[3] ELSE rect[4]

RECURSIVE generate_treemap(_, _, _)
RECURSIVE TreemapLoop(_, _, _, _, _, _, _)
\* while index != len(subtrees) - 1: ...; then the last subtree gets
\* rect[2] - remainder (or rect[3] - remainder).
TreemapLoop(t, n, rect, vertical, index, position, remainder) ==
    LET subtrees == t._subtrees[n]
        c == subtrees[index]
    IN  IF index # Len(subtrees)
        THEN LET extent == FloorShare(Extent(rect, vertical),
                                      t.data_size[c], t.data_size[n])
             IN  generate_treemap(t, c, SubRect(rect, vertical, position, extent))
                 \o TreemapLoop(t, n, rect, vertical, index + 1,
                                position + extent, remainder + extent)
        ELSE generate_treemap(t, c,
                 SubRect(rect, vertical, position, Extent(rect, vertical) - remainder))

generate_treemap(t, n, rect) ==
    IF t.data_size[n] = 0 THEN <<>>
    ELSE IF Len(t._subtrees[n]) = 0 THEN << <<rect, t.colour[n]>> >>
    ELSE IF rect[3] > rect[4]
         THEN TreemapLoop(t, n, rect, TRUE, 1, rect[1], 0)
    ELSE IF rect[4] > rect[3]
         THEN TreemapLoop(t, n, rect, FALSE, 1, rect[2], 0)
    ELSE <<>>

(***************************************************************************)
(* locate_leaf.  The result is a list of strings: [], ['', ''] or          *)
(* [display path, str(data_size)].                                         *)
(***************************************************************************)
\* Mutant of InRange: only the x range is tested.
InRangeXOnly(pos, r) == 0 <= pos[1] /\ pos[1] < r[1] + r[3]

\* pos[0] in range(x_range) and pos[1] in range(y_range)
InRange(pos, r) ==
    /\ 0 <= pos[1] /\ pos[1] < r[1] + r[3]
    /\ 0 <= pos[2] /\ pos[2] < r[2] + r[4]

RECURSIVE locate_leaf(_, _, _, _)
RECURSIVE LocateLoop(_, _, _, _, _, _, _, _)
\* for subtree in self._subtrees: the last one gets the rest of the extent,
\* the others their floored share; the first whose range holds pos is
\* searched and the loop breaks.
LocateLoop(t, n, pos, rect, vertical, index, position, remainder) ==
    LET subtrees == t._subtrees[n]
    IN  IF index > Len(subtrees) THEN <<>>
        ELSE LET c == subtrees[index]
                 extent == IF index = Len(subtrees)
                           THEN Extent(rect, vertical) - remainder
                           ELSE FloorShare(Extent(rect, vertical),
                                           t.data_size[c], t.data_size[n])
                 sub == SubRect(rect, vertical, position, extent)
             IN  IF InRange(pos, sub)
                 THEN locate_leaf(t, c, pos, sub)
                 ELSE LocateLoop(t, n, pos, rect, vertical, index + 1,
                                 position + extent, remainder + extent)

locate_leaf(t, n, pos, rect) ==
    IF t.data_size[n] = 0 THEN << <<>>, <<>> >>
    ELSE IF Len(t._subtrees[n]) = 0
         THEN << get_separator(t, n), StrOfInt(t.data_size[n]) >>
    ELSE IF rect[3] > rect[4]
         THEN LocateLoop(t, n, pos, rect, TRUE, 1, rect[1], 0)
    ELSE LocateLoop(t, n, pos, rect, FALSE, 1, rect[2], 0)

(***************************************************************************)
(* The calls on the root.  A mutation is followed, as in event_loop, by    *)
(* tree.data_size = tree.update_data_size().  <call> records the last call *)
(* made: its name, its arguments and what it returned; for a mutation also *)
(* how many nodes carried the named label when it was made (matches),      *)
(* whether the call before it was the same call (again) and, if so, how    *)
(* many nodes carried the label before that first call (first, else -1).   *)
(***************************************************************************)
NoRect == <<0, 0, 0, 0>>
NoPos == <<0, 0>>

MutationCall(op, leaf, ret) ==
    [ op |-> op, leaf |-> leaf, rect |-> NoRect, pos |-> NoPos, ret |-> ret,
      matches |-> Matches(tree, leaf),
      again |-> call.op = op /\ call.leaf = leaf,
      first |-> IF call.op = op /\ call.leaf = leaf THEN call.matches ELSE -1 ]

Init ==
    /\ \E shape \in Shapes :
         \E labels \in [NodesOf(shape) -> RootLabels \cup LeafLabels \cup InnerLabels] :
         \E arg \in [NodesOf(shape) -> LeafSizes \cup {0}] :
            /\ \A n \in NodesOf(shape) : labels[n] \in LabelChoices(shape, n)
            /\ \A n \in NodesOf(shape) : arg[n] \in ArgChoices(shape, n)
            /\ tree = NewTree(shape, labels, arg)
    /\ steps = 0
    /\ call = [ op |-> "__init__", leaf |-> <<>>, rect |-> NoRect, pos |-> NoPos,
                ret |-> None, matches |-> 0, again |-> FALSE, first |-> -1 ]

Increase(leaf) ==
    /\ steps < MaxCalls
    /\ tree' = Refresh(increase_data_size(tree, Root, leaf), Root)
    /\ steps' = steps + 1
    /\ call' = MutationCall("increase_data_size", leaf, None)

Decrease(leaf) ==
    /\ steps < MaxCalls
    /\ tree' = Refresh(decrease_data_size(tree, Root, leaf), Root)
    /\ steps' = steps + 1
    /\ call' = MutationCall("decrease_data_size", leaf, None)

Delete(leaf) ==
    /\ steps < MaxCalls
    /\ LET r == delete_leaf(tree, Root, leaf)
       IN  /\ tree' = Refresh(r.tree, Root)
           /\ call' = MutationCall("delete_leaf", leaf, r.ret)
    /\ steps' = steps + 1

Next ==
    \/ \E leaf \in LeafArgs(tree) : Increase(leaf)
    \/ \E leaf \in LeafArgs(tree) : Decrease(leaf)
    \/ \E leaf \in LeafArgs(tree) : Delete(leaf)

Spec == Init /\ [][Next]_vars

(***************************************************************************)
(* The layout and hit-test calls on the root.  Both are pure: a second     *)
(* call on the unchanged tree returns what the first returned, so a        *)
(* behaviour of LayoutSpec builds a tree, may empty nodes of it with one   *)
(* delete_leaf call, and then makes one layout or hit-test call.           *)
(***************************************************************************)
\* The rectangles handed to the top-level calls, with origin (0,0) or (1,1).
Rects == { <<o, o, w, h>> : o \in 0..1, w \in 1..MaxCoord, h \in 1..MaxCoord }
\* The positions of the clicks.
Positions == (0..MaxCoord) \X (0..MaxCoord)

QueryOps == {"generate_treemap", "locate_leaf"}

GenerateTreemap(rect) ==
    /\ call.op \notin QueryOps
    /\ call' = [ op |-> "generate_treemap", leaf |-> <<>>, rect |-> rect,
                 pos |-> NoPos, ret |-> generate_treemap(tree, Root, rect),
                 matches |-> 0, again |-> FALSE, first |-> -1 ]
    /\ UNCHANGED <<tree, steps>>

LocateLeaf(pos, rect) ==
    /\ call.op \notin QueryOps
    /\ call' = [ op |-> "locate_leaf", leaf |-> <<>>, rect |-> rect,
                 pos |-> pos, ret |-> locate_leaf(tree, Root, pos, rect),
                 matches |-> 0, again |-> FALSE, first |-> -1 ]
    /\ UNCHANGED <<tree, steps>>

LayoutNext ==
    \/ \E leaf \in LeafArgs(tree) : call.op = "__init__" /\ Delete(leaf)
    \/ \E rect \in Rects : GenerateTreemap(rect)
    \/ \E pos \in Positions, rect \in Rects : LocateLeaf(pos, rect)

LayoutSpec == Init /\ [][LayoutNext]_vars

(***************************************************************************)
(* Properties.                                                             *)
(***************************************************************************)
\* The sum of the data_size fields of the subtrees of n.
SubtreeSum(t, n) ==
    SumSeq([i \in 1..Len(t._subtrees[n]) |-> t.data_size[t._subtrees[n][i]]])

\* C1: after every mutation on the root followed by the caller's refresh of
\* the root, every node with a non-empty subtree list has data_size equal
\* to the sum of its subtrees' data_size, and update_data_size() of the
\* root equals the root's data_size.
C1_AggregationSound ==
    /\ \A n \in Nodes(tree) :
          Len(tree._subtrees[n]) > 0 => tree.data_size[n] = SubtreeSum(tree, n)
    /\ update_data_size(tree, Root) = tree.data_size[Root]

\* After two mutations, the last a decrease: a leaf below an inner node has
\* gone down to 99 and the inner node and the root have followed it.
C1_Witness ==
    /\ steps = 2
    /\ call.op = "decrease_data_size"
    /\ \E n \in Nodes(tree) \ {Root} :
          /\ Len(tree._subtrees[n]) > 0
          /\ tree.data_size[n] = 99
          /\ tree.data_size[Root] >= 99
          /\ tree._parent_tree[n] = Root

RECURSIVE SumAreas(_)
SumAreas(pairs) ==
    IF pairs = <<>> THEN 0
    ELSE pairs[1][1][3] * pairs[1][1][4] + SumAreas(Tail(pairs))

\* C2: for a root of positive data_size and a rectangle with width # height
\* the areas of the rectangles generate_treemap returns sum to
\* width * height.
C2_AreasCoverRect ==
    ( /\ call.op = "generate_treemap"
      /\ call.rect[3] # call.rect[4]
      /\ tree.data_size[Root] > 0 )
    => SumAreas(call.ret) = call.rect[3] * call.rect[4]

\* The colours of the non-empty leaves (labelled, data_size > 0, no
\* subtrees) below n, depth first in subtree order.
RECURSIVE NonEmptyLeafColours(_, _)
RECURSIVE LeafColoursFrom(_, _, _)
LeafColoursFrom(t, n, i) ==
    IF i > Len(t._subtrees[n]) THEN <<>>
    ELSE NonEmptyLeafColours(t, t._subtrees[n][i]) \o LeafColoursFrom(t, n, i + 1)

NonEmptyLeafColours(t, n) ==
    IF Len(t._subtrees[n]) = 0
    THEN IF t._root[n] # None /\ t.data_size[n] > 0 THEN <<t.colour[n]>> ELSE <<>>
    ELSE LeafColoursFrom(t, n, 1)

\* C3: for a rectangle with width # height generate_treemap returns exactly
\* one pair per non-empty leaf, in depth-first subtree order, and no pair
\* for any other node.
C3_OnePairPerLeaf ==
    ( call.op = "generate_treemap" /\ call.rect[3] # call.rect[4] )
    => /\ Len(call.ret) = Len(NonEmptyLeafColours(tree, Root))
       /\ \A i \in 1..Len(call.ret) :
             call.ret[i][2] = NonEmptyLeafColours(tree, Root)[i]

\* R.x <= px < R.x + R.width and R.y <= py < R.y + R.height
Inside(pos, r) ==
    /\ r[1] <= pos[1] /\ pos[1] < r[1] + r[3]
    /\ r[2] <= pos[2] /\ pos[2] < r[2] + r[4]

\* The node a pair of the layout was emitted for.
NodeOfColour(t, c) == CHOOSE n \in Nodes(t) : t.colour[n] = c

\* C4: for a rectangle with width # height and a point inside a rectangle R
\* that generate_treemap returns, locate_leaf with that point and the same
\* top-level rectangle returns the display path and the data_size string
\* of the leaf R was emitted for.
C4_LocateAgreesWithLayout ==
    ( call.op = "locate_leaf" /\ call.rect[3] # call.rect[4] )
    => LET pairs == generate_treemap(tree, Root, call.rect)
       IN  \A i \in 1..Len(pairs) :
              Inside(call.pos, pairs[i][1])
              => LET leaf == NodeOfColour(tree, pairs[i][2])
                 IN  call.ret = << get_separator(tree, leaf),
                                   StrOfInt(tree.data_size[leaf]) >>

\* A click inside the second rectangle of the layout, which belongs to a
\* leaf under an inner node, the top-level rectangle not at the origin.
C4_Witness ==
    /\ call.op = "locate_leaf"
    /\ call.rect[3] # call.rect[4]
    /\ call.rect[1] = 1
    /\ Len(call.ret) = 2
    /\ Len(call.ret[1]) = 3
    /\ \E i \in 2..Len(generate_treemap(tree, Root, call.rect)) :
          Inside(call.pos, generate_treemap(tree, Root, call.rect)[i][1])

\* C5: locate_leaf returns ['', ''] when the node's data_size is 0 or the
\* point lies outside every rectangle generate_treemap emits for the same
\* tree and rectangle, and never a list of fewer than two elements.
C5_EmptyResultOutside ==
    ( call.op = "locate_leaf" /\ call.rect[3] # call.rect[4] )
    => LET pairs == generate_treemap(tree, Root, call.rect)
       IN  /\ Len(call.ret) >= 2
           /\ ( \/ tree.data_size[Root] = 0
                \/ \A i \in 1..Len(pairs) : ~Inside(call.pos, pairs[i][1]) )
              => call.ret = << <<>>, <<>> >>

\* C6: every node whose label is None has no subtrees, no parent and
\* data_size 0.
C6_EmptyNodeInvariant ==
    \A n \in Nodes(tree) :
       tree._root[n] = None
       => /\ tree._subtrees[n] = <<>>
          /\ tree._parent_tree[n] = NoParent
          /\ tree.data_size[n] = 0

\* C7 as stated: a delete_leaf call that repeats the call before it changes
\* nothing, whatever labels the tree carries.
C7_DeleteTwiceAnyLabels ==
    [][ ( /\ call.op = "delete_leaf"
          /\ call'.op = "delete_leaf"
          /\ call'.leaf = call.leaf
          /\ steps' = steps + 1 )
        => tree' = tree ]_vars

\* C7 as amended: a delete_leaf call that repeats the call before it changes
\* nothing, provided at most one node of the tree carried the label when
\* the first of the two calls was made.
C7_DeleteTwiceUniqueLabel ==
    [][ ( /\ call.op = "delete_leaf"
          /\ call.matches <= 1
          /\ call'.op = "delete_leaf"
          /\ call'.leaf = call.leaf
          /\ steps' = steps + 1 )
        => tree' = tree ]_vars

\* The second of two equal delete_leaf calls has run; the first found the
\* one node carrying the label and emptied it below a root that keeps
\* other data, the second found none.
C7_Witness ==
    /\ call.op = "delete_leaf"
    /\ call.again
    /\ call.first = 1
    /\ call.matches = 0
    /\ \E n \in Reach(tree, Root) \ {Root} :
          tree._root[n] = None /\ tree.data_size[Root] > 0

\* The nodes above n, n excluded.
RECURSIVE Ancestors(_, _)
Ancestors(t, n) ==
    IF t._parent_tree[n] = NoParent THEN {}
    ELSE {t._parent_tree[n]} \cup Ancestors(t, t._parent_tree[n])

MaxOf(a, b) == IF a >= b THEN a ELSE b

\* C8: decrease_data_size called with the display path of a leaf of size
\* s >= 1 sets its size to max(1, s - ceil(s / 100)), which is at least 1
\* and not larger than s.
C8_DecreaseFormula ==
    [][ \A n \in NamedLeaves(tree) :
          ( /\ call'.op = "decrease_data_size"
            /\ call'.leaf = get_separator(tree, n)
            /\ tree.data_size[n] >= 1
            /\ steps' = steps + 1 )
          => LET s == tree.data_size[n]
             IN  /\ tree'.data_size[n] = MaxOf(1, s - ((s + 99) \div 100))
                 /\ tree'.data_size[n] >= 1
                 /\ tree'.data_size[n] <= s ]_vars

\* C9: increase_data_size called with the display path of a leaf of size s
\* sets its size to s + ceil(s / 100), and afterwards every ancestor of the
\* leaf below the root has data_size equal to the sum of its subtrees'.
C9_IncreaseFormula ==
    [][ \A n \in NamedLeaves(tree) :
          ( /\ call'.op = "increase_data_size"
            /\ call'.leaf = get_separator(tree, n)
            /\ steps' = steps + 1 )
          => LET s == tree.data_size[n]
             IN  /\ tree'.data_size[n] = s + ((s + 99) \div 100)
                 /\ \A m \in Ancestors(tree, n) \ {Root} :
                       tree'.data_size[m] = SubtreeSum(tree', m) ]_vars

\* C10: a node emptied by delete_leaf (label None, size 0) stays so under
\* every later call, and stays in its parent's subtree list at its index.
C10_TombstoneIsFinal ==
    [][ \A n \in Nodes(tree) :
          ( tree._root[n] = None /\ tree.data_size[n] = 0 )
          => /\ tree'._root[n] = None
             /\ tree'.data_size[n] = 0
             /\ \A p \in Nodes(tree) : \A i \in 1..Len(tree._subtrees[p]) :
                   tree._subtrees[p][i] = n
                   => /\ i <= Len(tree'._subtrees[p])
                      /\ tree'._subtrees[p][i] = n ]_vars

\* C11: a top-level generate_treemap or locate_leaf call with a rectangle
\* whose width equals its height is rejected: generate_treemap returns no
\* pair of a layout and locate_leaf returns no located leaf (no display
\* path with a size).
C11_SquareRejected ==
    ( call.op \in QueryOps /\ call.rect[3] = call.rect[4] )
    => /\ call.op = "generate_treemap" => call.ret = <<>>
       /\ call.op = "locate_leaf"
          => ~( Len(call.ret) = 2 /\ call.ret[1] # <<>> )

\* The value op returns to its caller when called on the root of t with
\* <leaf>: increase_data_size and decrease_data_size have no return
\* statement and return None.
Returned(op, t, leaf) ==
    IF op = "delete_leaf" THEN delete_leaf(t, Root, leaf).ret ELSE None

MutationOps == {"increase_data_size", "decrease_data_size", "delete_leaf"}

\* C12: a mutation called on the root with a label that no node of the
\* tree carries returns a value that differs from the value the same
\* method returns, on the same tree, when called with the display path of
\* a leaf that it finds.
C12_NotFoundReported ==
    [][ ( /\ call'.op \in MutationOps
          /\ steps' = steps + 1
          /\ call'.matches = 0 )
        => \A n \in NamedLeaves(tree) :
              call'.ret # Returned(call'.op, tree, get_separator(tree, n)) ]_vars

\* The calls generate_treemap(t, n, rect) makes, itself included, as
\* <<node, rectangle>> pairs: the same recursion as generate_treemap,
\* collecting the arguments of each call in place of its result.
RECURSIVE TreemapCalls(_, _, _)
RECURSIVE TreemapLoopCalls(_, _, _, _, _, _, _)
TreemapLoopCalls(t, n, rect, vertical, index, position, remainder) ==
    LET subtrees == t._subtrees[n]
        c == subtrees[index]
    IN  IF index # Len(subtrees)
        THEN LET extent == FloorShare(Extent(rect, vertical),
                                      t.data_size[c], t.data_size[n])
             IN  TreemapCalls(t, c, SubRect(rect, vertical, position, extent))
                 \cup TreemapLoopCalls(t, n, rect, vertical, index + 1,
                                       position + extent, remainder + extent)
        ELSE TreemapCalls(t, c,
                 SubRect(rect, vertical, position, Extent(rect, vertical) - remainder))

TreemapCalls(t, n, rect) ==
    { <<n, rect>> } \cup
    ( IF t.data_size[n] = 0 \/ Len(t._subtrees[n]) = 0 THEN {}
      ELSE IF rect[3] > rect[4]
           THEN TreemapLoopCalls(t, n, rect, TRUE, 1, rect[1], 0)
      ELSE IF rect[4] > rect[3]
           THEN TreemapLoopCalls(t, n, rect, FALSE, 1, rect[2], 0)
      ELSE {} )

\* C14: when the top-level generate_treemap call gets a rectangle with
\* width # height, every call of the recursion on a node with subtrees and
\* positive data_size gets a rectangle with width # height.
C14_RecursionKeepsInequality ==
    ( call.op = "generate_treemap" /\ call.rect[3] # call.rect[4] )
    => \A c \in TreemapCalls(tree, Root, call.rect) :
          ( Len(tree._subtrees[c[1]]) > 0 /\ tree.data_size[c[1]] > 0 )
          => c[2][3] # c[2][4]

\* The nodes without subtrees below n, depth first in subtree order.
RECURSIVE LeavesInOrder(_, _)
RECURSIVE LeavesFrom(_, _, _)
LeavesFrom(t, n, i) ==
    IF i > Len(t._subtrees[n]) THEN <<>>
    ELSE LeavesInOrder(t, t._subtrees[n][i]) \o LeavesFrom(t, n, i + 1)

LeavesInOrder(t, n) ==
    IF Len(t._subtrees[n]) = 0 THEN <<n>> ELSE LeavesFrom(t, n, 1)

\* The first leaf, depth first, whose label is the base name of <leaf>
\* (NoParent, which is no node, when there is none).
FirstLeafNamed(t, leaf) ==
    LET ls == LeavesInOrder(t, Root)
        hits == { i \in 1..Len(ls) : RootEquals(t, ls[i], Basename(leaf)) }
    IN  IF hits = {} THEN NoParent
        ELSE ls[CHOOSE i \in hits : \A j \in hits : i <= j]

\* C15: one mutation called with the display path of a leaf changes at most
\* the first depth-first leaf carrying the path's base name: every other
\* leaf keeps its label and data_size, and every node with subtrees keeps
\* its label and its subtree list.
C15_FirstMatchOnly ==
    [][ \A l \in NamedLeaves(tree) :
          ( /\ call'.op \in MutationOps
            /\ call'.leaf = get_separator(tree, l)
            /\ steps' = steps + 1 )
          => \A n \in Reach(tree, Root) :
                IF Len(tree._subtrees[n]) = 0
                THEN n # FirstLeafNamed(tree, call'.leaf)
                     => /\ tree'._root[n] = tree._root[n]
                        /\ tree'.data_size[n] = tree.data_size[n]
                ELSE /\ tree'._root[n] = tree._root[n]
                     /\ tree'._subtrees[n] = tree._subtrees[n] ]_vars

(***************************************************************************)
(* The constructor on its own.  A behaviour of CtorSpec starts with the    *)
(* arguments chosen and no object built: the shape of the tree and, for    *)
(* every node, the root and data_size arguments its __init__ call gets,    *)
(* the data_size argument also for a node that is given subtrees.          *)
(* Construct runs the __init__ calls bottom-up.                            *)
(***************************************************************************)
\* No object allocated yet.
NoTree ==
    [ _root |-> <<>>, _subtrees |-> <<>>, _parent_tree |-> <<>>,
      data_size |-> <<>>, colour |-> <<>> ]

CtorInit ==
    /\ tree = NoTree
    /\ steps = 0
    /\ \E shape \in Shapes :
         \E labels \in [NodesOf(shape) -> RootLabels \cup LeafLabels \cup InnerLabels] :
         \E arg \in [NodesOf(shape) -> LeafSizes] :
            /\ \A n \in NodesOf(shape) : labels[n] \in LabelChoices(shape, n)
            /\ call = [ op |-> "arguments", shape |-> shape,
                        labels |-> labels, arg |-> arg ]

Construct ==
    /\ call.op = "arguments"
    /\ tree' = NewTree(call.shape, call.labels, call.arg)
    /\ call' = [call EXCEPT !.op = "__init__"]
    /\ UNCHANGED steps

CtorNext == Construct

CtorSpec == CtorInit /\ [][CtorNext]_vars

\* C13: a node constructed with a non-empty subtree list has data_size
\* equal to the sum of its subtrees' data_size, whatever data_size argument
\* it was given; a node constructed with an empty list has the argument.
C13_SizeArgumentIgnored ==
    call.op = "__init__"
    => \A n \in Nodes(tree) :
          IF Len(tree._subtrees[n]) > 0
          THEN tree.data_size[n] = SubtreeSum(tree, n)
          ELSE tree.data_size[n] = call.arg[n]

(***************************************************************************)
(* event_loop of src/treemap_visualiser.py.  In a behaviour of LoopSpec    *)
(* <call> holds the frame of event_loop: the event handled last (op) and   *)
(* the locals selected_leaf and leaf_info.  leaf_info is a list of         *)
(* strings: [] or [display path, size text].  Each action is one turn of   *)
(* the while loop for one kind of event; render_display only reads the     *)
(* tree.  A key event with nothing selected changes nothing.  The window   *)
(* is scaled down: the treemap is 2 * MaxCoord wide and MaxCoord high, and *)
(* one more row of pixels below it stands for the text display, where a    *)
(* click can land as well.                                                 *)
(***************************************************************************)
\* rect = (0, 0, WIDTH, TREEMAP_HEIGHT)
Window == <<0, 0, 2 * MaxCoord, MaxCoord>>
\* event.pos: a pixel of the window, the text display included.
Clicks == (0..(2 * MaxCoord - 1)) \X (0..MaxCoord)

\* int(s) for the decimal digits s.
RECURSIVE IntOfStr(_)
IntOfStr(s) ==
    IF Len(s) = 1 THEN s[1]
    ELSE 10 * IntOfStr(SubSeq(s, 1, Len(s) - 1)) + s[Len(s)]

set_selected_leaf(leaf_info, selected_leaf) ==
    IF leaf_info[1] = selected_leaf THEN << <<>>, <<>> >>
    ELSE << leaf_info[1], leaf_info[2] >>

\* The events after which the loop is still running.
LoopOps == {"event_loop", "MOUSEBUTTONUP 1", "MOUSEBUTTONUP 3", "K_UP", "K_DOWN"}

\* selected_leaf = ''; leaf_info = []
StartLoop ==
    /\ call.op = "__init__"
    /\ call' = [ op |-> "event_loop", selected_leaf |-> <<>>, leaf_info |-> <<>> ]
    /\ UNCHANGED <<tree, steps>>

\* event.type == pygame.QUIT: return
Quit ==
    /\ call.op \in LoopOps
    /\ call' = [call EXCEPT !.op = "QUIT"]
    /\ UNCHANGED <<tree, steps>>

\* Left click.  locate_leaf may return []; leaf_info[0] in
\* set_selected_leaf then raises IndexError, which ends the loop.
LeftClick(pos) ==
    /\ call.op \in LoopOps
    /\ LET new_leaf == locate_leaf(tree, Root, pos, Window)
       IN  IF new_leaf = <<>>
           THEN call' = [call EXCEPT !.op = "IndexError"]
           ELSE LET leaf_info == set_selected_leaf(new_leaf, call.selected_leaf)
                IN  call' = [ op |-> "MOUSEBUTTONUP 1",
                              selected_leaf |-> leaf_info[1],
                              leaf_info |-> leaf_info ]
    /\ UNCHANGED <<tree, steps>>

\* Right click.  new_leaf[0] raises IndexError on [] before delete_leaf.
RightClick(pos) ==
    /\ call.op \in LoopOps
    /\ steps < MaxCalls
    /\ LET new_leaf == locate_leaf(tree, Root, pos, Window)
       IN  IF new_leaf = <<>>
           THEN /\ call' = [call EXCEPT !.op = "IndexError"]
                /\ UNCHANGED <<tree, steps>>
           ELSE /\ tree' = Refresh(delete_leaf(tree, Root, new_leaf[1]).tree, Root)
                /\ call' = [ op |-> "MOUSEBUTTONUP 3",
                             selected_leaf |-> <<>>, leaf_info |-> <<>> ]
                /\ steps' = steps + 1

\* Up key with a leaf selected.
KeyUp ==
    /\ call.op \in LoopOps
    /\ call.selected_leaf # <<>>
    /\ steps < MaxCalls
    /\ tree' = Refresh(increase_data_size(tree, Root, call.selected_leaf), Root)
    /\ LET leaf_data_size == IntOfStr(call.leaf_info[2])
       IN  call' = [call EXCEPT
                      !.op = "K_UP",
                      !.leaf_info[2] =
                          StrOfInt(leaf_data_size + CeilPercent(leaf_data_size))]
    /\ steps' = steps + 1

\* Down key with a leaf selected.
KeyDown ==
    /\ call.op \in LoopOps
    /\ call.selected_leaf # <<>>
    /\ steps < MaxCalls
    /\ tree' = Refresh(decrease_data_size(tree, Root, call.selected_leaf), Root)
    /\ LET leaf_data_size == IntOfStr(call.leaf_info[2])
       IN  call' = [call EXCEPT
                      !.op = "K_DOWN",
                      !.leaf_info[2] =
                          StrOfInt(leaf_data_size - CeilPercent(leaf_data_size))]
    /\ steps' = steps + 1

LoopNext ==
    \/ StartLoop
    \/ Quit
    \/ \E pos \in Clicks : LeftClick(pos)
    \/ \E pos \in Clicks : RightClick(pos)
    \/ KeyUp
    \/ KeyDown

LoopSpec == Init /\ [][LoopNext]_vars

\* C16: after every UP or DOWN key event handled with a leaf selected, the
\* size text of the display, leaf_info[1], is the data_size of a leaf of
\* the tree whose display path is the selected one.
C16_DisplayedSizeIsActual ==
    call.op \in {"K_UP", "K_DOWN"}
    => \E n \in Reach(tree, Root) :
          /\ Len(tree._subtrees[n]) = 0
          /\ get_separator(tree, n) = call.selected_leaf
          /\ StrOfInt(tree.data_size[n]) = call.leaf_info[2]

====
